---- MODULE Spec2Model ----
(***************************************************************************)
(* A model of solver.py: solve(), _reconstruct() and the State class of    *)
(* the A* sliding-tile puzzle solver, with the heap operations of heapq    *)
(* that solve() calls and the arbitrary-precision integer that holds the   *)
(* packed board.                                                           *)
(***************************************************************************)
EXTENDS Integers, Sequences, FiniteSets, TLC

\* Python's None.
None == <<>>

\* The value of a variable that has not been assigned yet.
Unset == [unset |-> TRUE]

\* A Python list of the elements s[1], s[2], ...: unlike the sequence s itself,
\* the empty list differs from None.
List(s) == [list |-> s]

(***************************************************************************)
(* Python integers.  Small integers (tile values, indices, costs) are      *)
(* TLA+ integers.  The packed board is an arbitrary-precision integer: a   *)
(* 3x3 board takes 36 bits.  It is kept as CPython keeps it: the sequence  *)
(* of its digits in base 2^15, least significant first, without leading    *)
(* zero digits (so that equal integers are equal sequences; zero is <<>>). *)
(***************************************************************************)
Base == 2 ^ 15

pow2(n) == 2 ^ n

abs(x) == IF x < 0 THEN 0 - x ELSE x

Digit(a, i) == IF i <= Len(a) THEN a[i] ELSE 0

RECURSIVE int_norm(_)
int_norm(a) ==
  IF a = <<>> THEN a
  ELSE IF a[Len(a)] = 0 THEN int_norm(SubSeq(a, 1, Len(a) - 1)) ELSE a

\* The integer n >= 0 as a digit sequence.
RECURSIVE int_of(_)
int_of(n) == IF n = 0 THEN <<>> ELSE <<n % Base>> \o int_of(n \div Base)

\* a + b, digit by digit from position i with carry c.
RECURSIVE add_from(_, _, _, _)
add_from(a, b, i, c) ==
  IF i > Len(a) /\ i > Len(b)
  THEN IF c = 0 THEN <<>> ELSE <<c>>
  ELSE LET x == Digit(a, i) + Digit(b, i) + c
       IN  <<x % Base>> \o add_from(a, b, i + 1, x \div Base)

int_add(a, b) == int_norm(add_from(a, b, 1, 0))

\* a - b for a >= b, digit by digit from position i with borrow c.
RECURSIVE sub_from(_, _, _, _)
sub_from(a, b, i, c) ==
  IF i > Len(a) THEN <<>>
  ELSE LET x == Digit(a, i) - Digit(b, i) - c
       IN  IF x < 0 THEN <<x + Base>> \o sub_from(a, b, i + 1, 1)
           ELSE <<x>> \o sub_from(a, b, i + 1, 0)

int_sub(a, b) == int_norm(sub_from(a, b, 1, 0))

\* a * 2^r for r < 15, digit by digit from position i with carry c.
RECURSIVE mul_from(_, _, _, _)
mul_from(a, m, i, c) ==
  IF i > Len(a) THEN IF c = 0 THEN <<>> ELSE <<c>>
  ELSE LET x == a[i] * m + c
       IN  <<x % Base>> \o mul_from(a, m, i + 1, x \div Base)

\* a << n
int_shl(a, n) ==
  IF a = <<>> THEN <<>>
  ELSE [k \in 1..(n \div 15) |-> 0] \o mul_from(a, pow2(n % 15), 1, 0)

\* (a & (mask << n)) >> n for mask = (1 << bits) - 1 and bits <= 15: the bits
\* n .. n+bits-1 of a, which lie in the digit that holds bit n and the next one.
int_field(a, n, bits) ==
  LET q == n \div 15
      two == Digit(a, q + 1) + Base * Digit(a, q + 2)
  IN  (two \div pow2(n % 15)) % pow2(bits)

\* ceil_log2 as it would be were log2 rounded down: int(log2(n)).
RECURSIVE floor_log2_from(_, _)
floor_log2_from(n, k) == IF pow2(k + 1) > n THEN k ELSE floor_log2_from(n, k + 1)

floor_log2(n) == floor_log2_from(n, 0)

\* math.ceil(math.log2(n)) for n >= 1: the least k with 2^k >= n.
RECURSIVE ceil_log2_from(_, _)
ceil_log2_from(n, k) == IF pow2(k) >= n THEN k ELSE ceil_log2_from(n, k + 1)

ceil_log2(n) == ceil_log2_from(n, 0)

\* The sum of f[lo] .. f[hi].
RECURSIVE Sum(_, _, _)
Sum(f, lo, hi) == IF lo > hi THEN 0 ELSE f[lo] + Sum(f, lo + 1, hi)

(***************************************************************************)
(* class State.  A State is a record of the fields its constructor sets.   *)
(* src is None or <<parent, label>>, where parent is a reference to the    *)
(* parent State: its index in the variable objects.                        *)
(***************************************************************************)

\* State.tile_at, on the fields it reads: the board masked by
\* center = ((1 << bit_length) - 1) << (bit_length*index) and shifted back.
tile_of(bit_length, board, index) == int_field(board, bit_length * index, bit_length)

tile_at(self, index) == tile_of(self.bit_length, self.board, index)

\* The linear-conflict penalty of the tile at (i, j): the inner loop of
\* State.__init__ over k in range(i+1, j).
linear_conflicts(bit_length, width, board, i, j) ==
  2 * Cardinality({k \in (i + 1)..(j - 1) :
        LET tile == tile_of(bit_length, board, i * width + k)
        IN  tile # 0 /\ tile \div width = i /\ tile % width <= j})

\* cell_heuristic as it would be were line 115 left out: the distance in rows
\* alone.
cell_heuristic_rows_only(bit_length, width, height, board, i, j) ==
  LET val == tile_of(bit_length, board, i * width + j)
      dest_i == IF val = 0 THEN height - 1 ELSE (val - 1) \div width
      dest_j == IF val = 0 THEN width - 1 ELSE (val - 1) % width
  IN  (IF val # 0 /\ i = dest_i /\ dest_j > j
       THEN linear_conflicts(bit_length, width, board, i, j) ELSE 0)
      + abs(i - dest_i)

\* cell_heuristic as it would be were the goal of the blank the first cell and
\* not the last.
cell_heuristic_blank_first(bit_length, width, height, board, i, j) ==
  LET val == tile_of(bit_length, board, i * width + j)
      dest_i == IF val = 0 THEN 0 ELSE (val - 1) \div width
      dest_j == IF val = 0 THEN 0 ELSE (val - 1) % width
  IN  (IF val # 0 /\ i = dest_i /\ dest_j > j
       THEN linear_conflicts(bit_length, width, board, i, j) ELSE 0)
      + abs(i - dest_i) + abs(j - dest_j)

\* What one pass of the body of the loops over i and j adds to heuristic_value.
cell_heuristic(bit_length, width, height, board, i, j) ==
  LET val == tile_of(bit_length, board, i * width + j)
      dest_i == IF val = 0 THEN height - 1 ELSE (val - 1) \div width
      dest_j == IF val = 0 THEN width - 1 ELSE (val - 1) % width
  IN  (IF val # 0 /\ i = dest_i /\ dest_j > j
       THEN linear_conflicts(bit_length, width, board, i, j) ELSE 0)
      + abs(i - dest_i) + abs(j - dest_j)

\* The heuristic value State.__init__ computes.
heuristic(bit_length, width, height, board) ==
  Sum([n \in 0..(width * height - 1) |->
         cell_heuristic(bit_length, width, height, board, n \div width, n % width)],
      0, width * height - 1)

\* State.__init__
State(bit_length, width, height, board, zero_index, cost, src) ==
  [cost |-> cost, src |-> src, bit_length |-> bit_length,
   zero_index |-> zero_index, height |-> height, width |-> width,
   board |-> board,
   heuristic_value |-> heuristic(bit_length, width, height, board)]

\* State.priority
priority(self) == self.heuristic_value + self.cost

\* State.__lt__
lt(self, other) == priority(self) < priority(other)

\* is_solvable as it would be were the row of the blank left out of the count
\* on a board of even width.
is_solvable_without_offset(self) ==
  LET n == self.width * self.height
      all == [index \in 1..n |-> tile_at(self, index - 1)]
      flat == SubSeq(all, 1, self.zero_index) \o SubSeq(all, self.zero_index + 2, n)
      inversions == Cardinality({p \in (1..Len(flat)) \X (1..Len(flat)) :
                                   p[1] < p[2] /\ flat[p[2]] < flat[p[1]]})
  IN  inversions % 2 = 0

\* is_solvable as it would be were the row of the blank counted from the top
\* row and not from the bottom row.
is_solvable_offset_from_top(self) ==
  LET n == self.width * self.height
      all == [index \in 1..n |-> tile_at(self, index - 1)]
      flat == SubSeq(all, 1, self.zero_index) \o SubSeq(all, self.zero_index + 2, n)
      inversions == Cardinality({p \in (1..Len(flat)) \X (1..Len(flat)) :
                                   p[1] < p[2] /\ flat[p[2]] < flat[p[1]]})
  IN  IF self.width % 2 = 1
      THEN inversions % 2 = 0
      ELSE LET offset == self.zero_index \div self.width
           IN  (inversions + offset) % 2 = 0

\* State.is_solvable
is_solvable(self) ==
  LET n == self.width * self.height
      all == [index \in 1..n |-> tile_at(self, index - 1)]
      flat == SubSeq(all, 1, self.zero_index) \o SubSeq(all, self.zero_index + 2, n)
      inversions == Cardinality({p \in (1..Len(flat)) \X (1..Len(flat)) :
                                   p[1] < p[2] /\ flat[p[2]] < flat[p[1]]})
  IN  IF self.width % 2 = 1
      THEN inversions % 2 = 0
      ELSE LET offset == (self.height - 1) - (self.zero_index \div self.width)
           IN  (inversions + offset) % 2 = 0

\* moved as it would be were the cost of the parent passed on as it is.
moved_cost_kept(self, ref, new_zero_index, label) ==
  LET tile == tile_at(self, new_zero_index)
      b1 == int_sub(self.board,
                    int_shl(int_of(tile), self.bit_length * new_zero_index))
      new_board == int_add(b1, int_shl(int_of(tile), self.bit_length * self.zero_index))
  IN  State(self.bit_length, self.width, self.height, new_board, new_zero_index,
            self.cost, <<ref, label>>)

\* The State that up, down, left and right build once the guard has passed:
\* the tile at new_zero_index moves to zero_index.
moved(self, ref, new_zero_index, label) ==
  LET tile == tile_at(self, new_zero_index)
      b1 == int_sub(self.board,
                    int_shl(int_of(tile), self.bit_length * new_zero_index))
      new_board == int_add(b1, int_shl(int_of(tile), self.bit_length * self.zero_index))
  IN  State(self.bit_length, self.width, self.height, new_board, new_zero_index,
            self.cost + 1, <<ref, label>>)

\* State.up of the State self, to which ref refers.
up(self, ref) ==
  IF self.zero_index \div self.width = self.height - 1 THEN None
  ELSE moved(self, ref, self.zero_index + self.width, "U")

\* State.down
down(self, ref) ==
  IF self.zero_index \div self.width = 0 THEN None
  ELSE moved(self, ref, self.zero_index - self.width, "D")

\* left as it would be with the label of right.
left_labelled_R(self, ref) ==
  IF self.zero_index % self.width = self.width - 1 THEN None
  ELSE moved(self, ref, self.zero_index + 1, "R")

\* State.left
left(self, ref) ==
  IF self.zero_index % self.width = self.width - 1 THEN None
  ELSE moved(self, ref, self.zero_index + 1, "L")

\* right as it would be with the label of left.
right_labelled_L(self, ref) ==
  IF self.zero_index % self.width = 0 THEN None
  ELSE moved(self, ref, self.zero_index - 1, "L")

\* State.right
right(self, ref) ==
  IF self.zero_index % self.width = 0 THEN None
  ELSE moved(self, ref, self.zero_index - 1, "R")

(***************************************************************************)
(* heapq, as solve() uses it: the heap is a Python list (positions from    *)
(* 0) of references to State objects, compared by State.__lt__.  O is the  *)
(* sequence of the objects the references refer to.                        *)
(***************************************************************************)
RECURSIVE siftdown_from(_, _, _, _, _)
siftdown_from(O, heap, startpos, pos, newitem) ==
  IF pos > startpos
  THEN LET parentpos == (pos - 1) \div 2
           parent == heap[parentpos + 1]
       IN  IF lt(O[newitem], O[parent])
           THEN siftdown_from(O, [heap EXCEPT ![pos + 1] = parent],
                              startpos, parentpos, newitem)
           ELSE [heap EXCEPT ![pos + 1] = newitem]
  ELSE [heap EXCEPT ![pos + 1] = newitem]

\* heapq._siftdown
siftdown(O, heap, startpos, pos) ==
  siftdown_from(O, heap, startpos, pos, heap[pos + 1])

RECURSIVE siftup_from(_, _, _, _, _)
siftup_from(O, heap, startpos, pos, newitem) ==
  LET endpos == Len(heap)
      childpos == 2 * pos + 1
      rightpos == childpos + 1
      smaller == IF rightpos < endpos
                    /\ ~lt(O[heap[childpos + 1]], O[heap[rightpos + 1]])
                 THEN rightpos ELSE childpos
  IN  IF childpos < endpos
      THEN siftup_from(O, [heap EXCEPT ![pos + 1] = heap[smaller + 1]],
                       startpos, smaller, newitem)
      ELSE siftdown(O, [heap EXCEPT ![pos + 1] = newitem], startpos, pos)

\* heapq._siftup
siftup(O, heap, pos) == siftup_from(O, heap, pos, pos, heap[pos + 1])

\* heapq.heappush: the heap after the push.
heappush(O, heap, item) == siftdown(O, Append(heap, item), 0, Len(heap))

\* heapq.heappop of a non-empty heap: the item popped and the heap after it.
heappop(O, heap) ==
  LET lastelt == heap[Len(heap)]
      rest == SubSeq(heap, 1, Len(heap) - 1)
  IN  IF rest # <<>>
      THEN [item |-> rest[1], heap |-> siftup(O, [rest EXCEPT ![1] = lastelt], 0)]
      ELSE [item |-> lastelt, heap |-> rest]

(***************************************************************************)
(* The boards.  A layout is the row-major 2D list solve() is given and the *)
(* animator of slidingpuzzle.py holds: a sequence of rows.                 *)
(***************************************************************************)
Height(layout) == Len(layout)

Width(layout) == Len(layout[1])

\* The layout of the cells f[1] .. f[h*w] in row-major order.
Layout(f, h, w) == [r \in 1..h |-> [c \in 1..w |-> f[(r - 1) * w + c]]]

\* The value at linear index n (from 0) of a layout.
Cell(layout, n) == layout[(n \div Width(layout)) + 1][(n % Width(layout)) + 1]

\* The canonical solved order: tile k at linear index k-1, the blank last.
Solved(h, w) == Layout([n \in 1..(h * w) |-> IF n = h * w THEN 0 ELSE n], h, w)

\* The gap (r, c), from 0, of a layout: Board.__init__ of slidingpuzzle.py.
Gap(layout) ==
  CHOOSE g \in (0..(Height(layout) - 1)) \X (0..(Width(layout) - 1)) :
    layout[g[1] + 1][g[2] + 1] = 0

\* Where Board._animate_frame puts the gap for a move.
NewGap(gap, move) ==
  CASE move = "L" -> <<gap[1], gap[2] + 1>>
    [] move = "R" -> <<gap[1], gap[2] - 1>>
    [] move = "U" -> <<gap[1] + 1, gap[2]>>
    [] move = "D" -> <<gap[1] - 1, gap[2]>>

\* The move is legal: the tile named by the move exists.
Legal(layout, move) ==
  LET g == NewGap(Gap(layout), move)
  IN  g[1] \in 0..(Height(layout) - 1) /\ g[2] \in 0..(Width(layout) - 1)

\* Board._animate_frame's update of the layout for a legal move.
Animate(layout, move) ==
  LET gap == Gap(layout)
      g == NewGap(gap, move)
      tile == layout[g[1] + 1][g[2] + 1]
  IN  [r \in 1..Height(layout) |-> [c \in 1..Width(layout) |->
         IF <<r - 1, c - 1>> = gap THEN tile
         ELSE IF <<r - 1, c - 1>> = g THEN 0 ELSE layout[r][c]]]

Moves == {"U", "D", "L", "R"}

\* The layouts one legal move away from a layout.
Neighbours(layout) == {Animate(layout, m) : m \in {x \in Moves : Legal(layout, x)}}

(***************************************************************************)
(* The inputs.  A dimension is <<height, width>>.  Of the boards of up to  *)
(* four cells, every permutation; of the boards of six cells, the boards   *)
(* at most SixCellDepth legal moves from the solved board; of the larger   *)
(* boards, those at most ScrambleDepth moves from it; and, for unsolvable  *)
(* inputs of these sizes, the same boards with tiles 1 and 2 exchanged.    *)
(***************************************************************************)
SmallDims == {<<1, 1>>, <<1, 2>>, <<2, 1>>, <<1, 3>>, <<3, 1>>, <<1, 4>>, <<4, 1>>,
              <<2, 2>>}

SixCellDims == {<<2, 3>>, <<3, 2>>}

LargeDims == {<<3, 3>>, <<2, 4>>}

SixCellDepth == 11

ScrambleDepth == 5

\* The sequences of length n that hold each of 0 .. n-1 once.
Arrangements(n) ==
  {f \in [1..n -> 0..(n - 1)] : \A i, j \in 1..n : i < j => f[i] # f[j]}

RECURSIVE Factorial(_)
Factorial(n) == IF n = 0 THEN 1 ELSE n * Factorial(n - 1)

\* layers[k+1] is the set of layouts exactly k legal moves from the solved
\* layout, for k up to depth (or until no new layout is found).
RECURSIVE LayersFrom(_, _, _)
LayersFrom(layers, seen, depth) ==
  LET next == UNION {Neighbours(l) : l \in layers[Len(layers)]} \ seen
  IN  IF next = {} \/ Len(layers) > depth THEN layers
      ELSE LayersFrom(Append(layers, next), seen \cup next, depth)

Layers(h, w, depth) == LayersFrom(<<{Solved(h, w)}>>, {Solved(h, w)}, depth)

\* The layouts of each dimension by their distance from the solved layout:
\* all the layouts that can reach it for the boards of up to six cells (no
\* shortest path is longer than the number of layouts).
DistanceLayers ==
  [h \in 1..4, w \in 1..4 |->
     IF <<h, w>> \in SmallDims \cup SixCellDims THEN Layers(h, w, Factorial(h * w))
     ELSE IF <<h, w>> \in LargeDims THEN Layers(h, w, ScrambleDepth)
     ELSE <<>>]

LayersOf(layout) == DistanceLayers[Height(layout), Width(layout)]

\* The solved layout can be reached from the layout by legal moves (for a
\* layout of up to six cells).
Reachable(layout) == \E k \in 1..Len(LayersOf(layout)) : layout \in LayersOf(layout)[k]

\* The least number of legal moves from the layout to the solved layout.
Distance(layout) ==
  (CHOOSE k \in 1..Len(LayersOf(layout)) : layout \in LayersOf(layout)[k]) - 1

\* The layout with tiles 1 and 2 exchanged.
Twin(layout) ==
  [r \in 1..Height(layout) |-> [c \in 1..Width(layout) |->
     CASE layout[r][c] = 1 -> 2 [] layout[r][c] = 2 -> 1 [] OTHER -> layout[r][c]]]

\* The layouts of dimension d at most depth moves from the solved one.
Scrambled(d, depth) ==
  UNION {DistanceLayers[d[1], d[2]][k] :
           k \in 1..(IF Len(DistanceLayers[d[1], d[2]]) < depth + 1
                     THEN Len(DistanceLayers[d[1], d[2]]) ELSE depth + 1)}

WithTwins(layouts) == layouts \cup {Twin(l) : l \in layouts}

\* Boards deeper than SixCellDepth that the search is also run on.
DeepBoards == {Layout(<<0, 2, 1, 5, 4, 3>>, 2, 3), Layout(<<2, 0, 5, 3, 4, 1>>, 2, 3)}

Inputs ==
  UNION {{Layout(f, d[1], d[2]) : f \in Arrangements(d[1] * d[2])} : d \in SmallDims}
  \cup DeepBoards
  \cup UNION {WithTwins(Scrambled(d, SixCellDepth)) : d \in SixCellDims}
  \cup UNION {WithTwins(Scrambled(d, ScrambleDepth)) : d \in LargeDims}

(***************************************************************************)
(* solve(puz)                                                              *)
(***************************************************************************)
VARIABLES
  puz,      \* the argument of solve()
  pc,       \* "start": solve() is called; "loop": at the head of the while
            \* loop; "done": solve() has returned
  objects,  \* the State objects created and kept, by reference
  open,     \* the open list: a heap of references
  closed,   \* the closed dict: packed board -> src
  current,  \* the reference last popped from open
  result,   \* what solve() returned: None or the list of moves
  count,    \* how often is_solvable and heappop were called and how many
            \* neighbour States up, down, left and right returned
  first,    \* TieSpec: the outcome of the first of the two runs of solve()
  origin    \* OracleSpec: the layout the enumeration of the moves began at

vars == <<puz, pc, objects, open, closed, current, result, count, first, origin>>

\* The packed board of lines 23-27: the sum of puz[i][j] << bit_length*(i*width+j)
\* over the cells from linear index n on.
RECURSIVE squish(_, _, _)
squish(layout, bit_length, n) ==
  IF n >= Height(layout) * Width(layout) THEN <<>>
  ELSE int_add(int_shl(int_of(Cell(layout, n)), bit_length * n),
               squish(layout, bit_length, n + 1))

\* zero_index of lines 20-27: i*width+j is added for every cell that holds 0.
RECURSIVE find_zero(_, _)
find_zero(layout, n) ==
  IF n >= Height(layout) * Width(layout) THEN 0
  ELSE (IF Cell(layout, n) = 0 THEN n ELSE 0) + find_zero(layout, n + 1)

\* init_state of line 29.
init_state(layout) ==
  LET width == Width(layout)
      height == Height(layout)
      bit_length == ceil_log2(width * height)
  IN  State(bit_length, width, height, squish(layout, bit_length, 0),
            find_zero(layout, 0), 0, None)

\* _reconstruct's trail before it is reversed: the labels from src back.
RECURSIVE trail(_, _, _)
trail(O, map, src) ==
  IF map[O[src].board] = None THEN <<>>
  ELSE <<map[O[src].board][2]>> \o trail(O, map, map[O[src].board][1])

\* reverse as it would be were trail.reverse() left out of _reconstruct.
reverse_left_out(s) == s

\* trail.reverse()
reverse(s) == [i \in 1..Len(s) |-> s[Len(s) + 1 - i]]

\* _reconstruct(map, src)
reconstruct(O, map, src) == reverse(trail(O, map, src))

\* closed[key] = value, the key being a State, hashed and compared by board.
dict_set(map, key, value) ==
  [b \in DOMAIN map \cup {key.board} |-> IF b = key.board THEN value ELSE map[b]]

\* push_if_new as it would be were "and n not in closed" left out of lines 52,
\* 56, 60 and 64.
push_if_new_unchecked(acc, map, n) ==
  IF n = None THEN acc
  ELSE LET O == Append(acc.objects, n)
       IN  [objects |-> O, open |-> heappush(O, acc.open, Len(O)),
            neighbour |-> acc.neighbour + 1]

\* "if n is not None and n not in closed: heappush(open, n)" on the objects
\* and the heap in acc; the State pushed is kept under a new reference.
\* acc.neighbour counts the neighbours that are not None.
push_if_new(acc, map, n) ==
  IF n = None THEN acc
  ELSE IF n.board \notin DOMAIN map
  THEN LET O == Append(acc.objects, n)
       IN  [objects |-> O, open |-> heappush(O, acc.open, Len(O)),
            neighbour |-> acc.neighbour + 1]
  ELSE [acc EXCEPT !.neighbour = @ + 1]

\* Lines 50-65: the four neighbours of current, in the order U, D, L, R.
expand(O, heap, map, cur) ==
  LET a0 == [objects |-> O, open |-> heap, neighbour |-> 0]
      a1 == push_if_new(a0, map, up(O[cur], cur))
      a2 == push_if_new(a1, map, down(O[cur], cur))
      a3 == push_if_new(a2, map, left(O[cur], cur))
  IN  push_if_new(a3, map, right(O[cur], cur))

NoCalls == [is_solvable |-> 0, heappop |-> 0, neighbour |-> 0]

Init ==
  /\ puz \in Inputs
  /\ pc = "start"
  /\ objects = <<>>
  /\ open = <<>>
  /\ closed = <<>>
  /\ current = 0
  /\ result = Unset
  /\ count = NoCalls
  /\ first = Unset
  /\ origin = Unset

\* Lines 16-33: the board is not solvable and solve() returns None.
SolveUnsolvable ==
  /\ pc = "start"
  /\ ~is_solvable(init_state(puz))
  /\ objects' = <<init_state(puz)>>
  /\ count' = [count EXCEPT !.is_solvable = @ + 1]
  /\ result' = None
  /\ pc' = "done"
  /\ UNCHANGED <<puz, open, closed, current, first, origin>>

\* SolveBegin as it would be were lines 32-33 left out: the search begins
\* whatever is_solvable says.
SolveBegin_unchecked ==
  /\ pc = "start"
  /\ objects' = <<init_state(puz)>>
  /\ count' = [count EXCEPT !.is_solvable = @ + 1]
  /\ open' = <<1>>
  /\ closed' = <<>>
  /\ pc' = "loop"
  /\ UNCHANGED <<puz, current, result, first, origin>>

\* Lines 16-37: the board is solvable and the search begins.
SolveBegin ==
  /\ pc = "start"
  /\ is_solvable(init_state(puz))
  /\ objects' = <<init_state(puz)>>
  /\ count' = [count EXCEPT !.is_solvable = @ + 1]
  /\ open' = <<1>>
  /\ closed' = <<>>
  /\ pc' = "loop"
  /\ UNCHANGED <<puz, current, result, first, origin>>

\* Lines 41-48: the rest of a pass of the loop whose heappop gave p, a State
\* of heuristic value 0.
goal_pass(p) ==
  LET map == dict_set(closed, objects[p.item], objects[p.item].src)
  IN  /\ objects[p.item].heuristic_value = 0
      /\ current' = p.item
      /\ open' = p.heap
      /\ closed' = map
      /\ result' = List(reconstruct(objects, map, p.item))
      /\ count' = [count EXCEPT !.heappop = @ + 1]
      /\ pc' = "done"
      /\ UNCHANGED <<puz, objects, first, origin>>

\* Lines 41-65: the rest of a pass of the loop whose heappop gave p, a State
\* of another heuristic value, which is expanded.
expand_pass(p) ==
  LET map == dict_set(closed, objects[p.item], objects[p.item].src)
      acc == expand(objects, p.heap, map, p.item)
  IN  /\ objects[p.item].heuristic_value # 0
      /\ current' = p.item
      /\ closed' = map
      /\ objects' = acc.objects
      /\ open' = acc.open
      /\ count' = [count EXCEPT !.heappop = @ + 1, !.neighbour = @ + acc.neighbour]
      /\ UNCHANGED <<puz, pc, result, first, origin>>

\* Lines 40-48: one pass of the loop that pops a State of heuristic value 0.
PopGoal ==
  /\ pc = "loop"
  /\ Len(open) > 0
  /\ goal_pass(heappop(objects, open))

\* Lines 40-65: one pass of the loop that pops another State and expands it.
PopExpand ==
  /\ pc = "loop"
  /\ Len(open) > 0
  /\ expand_pass(heappop(objects, open))

\* Line 40: open is empty, the loop ends and solve() returns None.
Exhausted ==
  /\ pc = "loop"
  /\ Len(open) = 0
  /\ result' = None
  /\ pc' = "done"
  /\ UNCHANGED <<puz, objects, open, closed, current, count, first, origin>>

Next == SolveUnsolvable \/ SolveBegin \/ PopGoal \/ PopExpand \/ Exhausted

Spec == Init /\ [][Next]_vars

\* solve() runs to completion: it is one thread and no pass of the loop waits
\* on anything, so a call that has not returned takes another step.  This is
\* WF_vars(Next) with ENABLED <<Next>>_vars written out: of SolveUnsolvable
\* and SolveBegin one is enabled when pc = "start", of Exhausted, PopGoal and
\* PopExpand one is enabled when pc = "loop", and each changes pc or count.
FairSpec == Spec /\ ([]<><<Next>>_vars \/ []<>(pc = "done"))

(***************************************************************************)
(* TieSpec: solve() is run twice on the same board, and heappop may give   *)
(* any State of the least priority in open, which is all that State.__lt__ *)
(* tells heapq about the order of the States.                              *)
(***************************************************************************)
TieInputs ==
  {Layout(f, 2, 2) : f \in Arrangements(4)}
  \cup {Layout(f, 1, 4) : f \in Arrangements(4)}
  \cup {Layout(<<4, 0, 5, 2, 3, 1>>, 2, 3), Layout(<<1, 2, 3, 4, 0, 5>>, 2, 3)}

\* The pops a heap may answer with: one for each State of open that no other
\* State is less than.
any_heappop(O, heap) ==
  {[item |-> heap[i],
    heap |-> SubSeq(heap, 1, i - 1) \o SubSeq(heap, i + 1, Len(heap))] :
     i \in {j \in 1..Len(heap) : \A k \in 1..Len(heap) : ~lt(O[heap[k]], O[heap[j]])}}

TieInit ==
  /\ puz \in TieInputs
  /\ pc = "start"
  /\ objects = <<>>
  /\ open = <<>>
  /\ closed = <<>>
  /\ current = 0
  /\ result = Unset
  /\ count = NoCalls
  /\ first = Unset
  /\ origin = Unset

TiePopGoal ==
  /\ pc = "loop"
  /\ Len(open) > 0
  /\ \E p \in any_heappop(objects, open) : goal_pass(p)

TiePopExpand ==
  /\ pc = "loop"
  /\ Len(open) > 0
  /\ \E p \in any_heappop(objects, open) : expand_pass(p)

\* What two runs are compared by: None, or the length of the list returned.
outcome(returned) == IF returned = None THEN None ELSE [len |-> Len(returned.list)]

\* The first run has returned: solve() is called again on the same board.
SecondRun ==
  /\ pc = "done"
  /\ first = Unset
  /\ first' = outcome(result)
  /\ pc' = "start"
  /\ objects' = <<>>
  /\ open' = <<>>
  /\ closed' = <<>>
  /\ current' = 0
  /\ result' = Unset
  /\ count' = NoCalls
  /\ UNCHANGED <<puz, origin>>

TieNext ==
  SolveUnsolvable \/ SolveBegin \/ TiePopGoal \/ TiePopExpand \/ Exhausted \/ SecondRun

TieSpec == TieInit /\ [][TieNext]_vars

(***************************************************************************)
(* OracleSpec: the move graph of the 2x2 and of the 3x3 board, enumerated  *)
(* from the solved layout and from the solved layout with tiles 1 and 2    *)
(* exchanged.  The moves are reversible, so the layouts reached from the   *)
(* solved layout are those from which it can be reached.  State.is_solvable*)
(* is applied, as solve() applies it, to the initial State of each layout. *)
(***************************************************************************)
OracleDims == {<<2, 2>>, <<3, 3>>}

OracleInit ==
  /\ \E d \in OracleDims : origin \in {Solved(d[1], d[2]), Twin(Solved(d[1], d[2]))}
  /\ puz = origin
  /\ pc = "start"
  /\ objects = <<>>
  /\ open = <<>>
  /\ closed = <<>>
  /\ current = 0
  /\ result = Unset
  /\ count = NoCalls
  /\ first = Unset

\* One legal move on the layout.
OracleMove ==
  /\ puz' \in Neighbours(puz)
  /\ UNCHANGED <<pc, objects, open, closed, current, result, count, first, origin>>

OracleSpec == OracleInit /\ [][OracleMove]_vars

(***************************************************************************)
(* What the claims are stated with.                                        *)
(***************************************************************************)

\* The layout a State holds, cell by cell through tile_at.
decode(self) ==
  Layout([n \in 1..(self.height * self.width) |-> tile_at(self, n - 1)],
         self.height, self.width)

\* What Replay gives when a move is not legal where it is applied.
Illegal == <<>>

\* The layout after the animator has applied the moves one by one.
RECURSIVE Replay(_, _)
Replay(layout, moves) ==
  IF moves = <<>> THEN layout
  ELSE IF ~Legal(layout, Head(moves)) THEN Illegal
  ELSE Replay(Animate(layout, Head(moves)), Tail(moves))

SolvedLike(layout) == Solved(Height(layout), Width(layout))

\* Every layout of this dimension that can reach the solved one is in
\* DistanceLayers, so Reachable decides and Distance is defined for all of them.
Enumerated(layout) == <<Height(layout), Width(layout)>> \in SmallDims \cup SixCellDims

\* C1: when solve() has returned for a board from which the solved order can
\* be reached, it has returned a list of moves, every move of the list is
\* legal where the animator applies it, and the layout after the last move is
\* the solved order.
C1_SolutionReplays ==
  (pc = "done" /\ Reachable(puz)) =>
    (result # None /\ Replay(puz, result.list) = SolvedLike(puz))

\* C1 witness: a solution of twelve moves or more has been returned and replays
\* to the solved order.
C1_Witness ==
  /\ pc = "done"
  /\ Reachable(puz)
  /\ result # None
  /\ Len(result.list) >= 12
  /\ Replay(puz, result.list) = SolvedLike(puz)

\* C2 (as claimed): for a solvable 2x2, 2x3 or 3x3 board the list returned is
\* as long as the shortest path from the board to the solved order.
C2_ShortestPath ==
  (/\ pc = "done"
   /\ <<Height(puz), Width(puz)>> \in {<<2, 2>>, <<2, 3>>, <<3, 3>>}
   /\ Reachable(puz)
   /\ result # None)
  => Len(result.list) = Distance(puz)

\* C3: solve() returns a list of moves for every board that can reach the
\* solved order, and None for every board that cannot (the boards of the
\* dimensions whose move graph is enumerated, single rows and columns among
\* them).
C3_NoneIffUnreachable ==
  pc = "done" =>
    /\ Reachable(puz) => result # None
    /\ (Enumerated(puz) /\ ~Reachable(puz)) => result = None

\* C3 witness: a single-row board that passes is_solvable, cannot reach the
\* solved order and for which the search has run dry and returned None.
C3_Witness ==
  /\ pc = "done"
  /\ Height(puz) = 1
  /\ ~Reachable(puz)
  /\ count.heappop > 0
  /\ result = None

\* C4: is_solvable is true of exactly the layouts of the 2x2 and 3x3 boards
\* that the enumeration of the move graph reaches from the solved layout (and
\* false of those it reaches from the exchanged one; the two enumerations
\* cover all 4! and 9! permutations); for the 2x2 board this is also the set
\* of layouts in DistanceLayers.
C4_OracleAgrees ==
  /\ is_solvable(init_state(puz)) <=> (origin = SolvedLike(puz))
  /\ Enumerated(puz) => (is_solvable(init_state(puz)) <=> Reachable(puz))

\* C4 witness: a 3x3 layout with the blank in the top left corner, reached
\* from the exchanged layout, of which is_solvable is false.
C4_Witness ==
  /\ origin = Twin(Solved(3, 3))
  /\ puz[1][1] = 0
  /\ ~is_solvable(init_state(puz))

\* C5 (as claimed): the heuristic value of every State created in a search
\* from a solvable board is at most the least number of moves from its board
\* to the solved order.
C5_Admissible ==
  (Enumerated(puz) /\ Reachable(puz)) =>
    \A i \in 1..Len(objects) :
      objects[i].heuristic_value <= Distance(decode(objects[i]))

\* C6: is_solvable is evaluated once, on the initial State, when solve() leaves
\* its first lines; and when it is false, solve() has returned None there:
\* nothing was popped, nothing is in closed or open, no neighbour was built.
C6_UnsolvableReturnsAtOnce ==
  /\ count.is_solvable = (IF pc = "start" THEN 0 ELSE 1)
  /\ (pc # "start" /\ ~is_solvable(objects[1])) =>
       /\ pc = "done"
       /\ result = None
       /\ count.heappop = 0
       /\ count.neighbour = 0
       /\ closed = <<>>
       /\ open = <<>>
       /\ Len(objects) = 1

\* C6 witness: solve() has returned None for a 3x3 board of which is_solvable
\* is false.
C6_Witness ==
  /\ pc = "done"
  /\ Height(puz) = 3
  /\ Width(puz) = 3
  /\ ~is_solvable(objects[1])
  /\ result = None

\* C7: on the solved board of every size no neighbour is ever built, and what
\* solve() returns is the empty list.
C7_SolvedBoardEmptyList ==
  puz = SolvedLike(puz) =>
    /\ count.neighbour = 0
    /\ pc = "done" => result = List(<<>>)

\* C7 witness: solve() has returned for the solved 3x3 board after one pop.
C7_Witness ==
  /\ pc = "done"
  /\ puz = Solved(3, 3)
  /\ count.heappop = 1
  /\ result # None

\* C8: for [[1,2],[0,3]] solve() returns one move, and it is the label of the
\* direction in which tile 3 slides into the blank: tile 3 is right of the
\* blank and slides left, "L", the label with which the animator solves the
\* board.
C8_Board == <<<<1, 2>>, <<0, 3>>>>

C8_SingleSlide ==
  (pc = "done" /\ puz = C8_Board) =>
    (result = List(<<"L">>) /\ Animate(puz, "L") = Solved(2, 2))

\* C8 witness: solve() has returned a list of one move for [[1,2],[0,3]].
C8_Witness ==
  /\ pc = "done"
  /\ puz = C8_Board
  /\ result # None
  /\ Len(result.list) = 1

Stale(O, heap, map) ==
  Cardinality({i \in 1..Len(heap) : O[heap[i]].board \in DOMAIN map})

\* C10: the loop of solve() ends.  closed never holds more keys than there are
\* arrangements of the cells; every pass of the loop that does not return adds
\* a key to closed, or leaves its keys as they are and leaves in open fewer
\* States whose board is a key of closed; and every call of solve() returns.
C10_Terminates ==
  /\ [](Cardinality(DOMAIN closed) <= Factorial(Height(puz) * Width(puz)))
  /\ [][(pc = "loop" /\ pc' = "loop") =>
          \/ Cardinality(DOMAIN closed') > Cardinality(DOMAIN closed)
          \/ /\ DOMAIN closed' = DOMAIN closed
             /\ Stale(objects', open', closed') < Stale(objects, open, closed)]_vars
  /\ <>(pc = "done")

\* C10 witness: solve() has returned after thirty passes of the loop or more.
C10_Witness ==
  /\ pc = "done"
  /\ count.heappop >= 30

\* C11 (as claimed): once is_solvable has answered true, open is not empty
\* when the loop tests it, and what solve() returns after its passes is the
\* path of a goal State, not None.
C11_GoalAlwaysPopped ==
  /\ pc = "loop" => Len(open) > 0
  /\ (pc = "done" /\ is_solvable(objects[1])) => result # None

\* C12 (as claimed): a pass of the loop that pops a State whose board is
\* already a key of closed leaves closed as it is, builds no neighbour and
\* pushes no State.
C12_LazyDeletion ==
  [][(pc = "loop" /\ Len(open) > 0 /\ objects[current'].board \in DOMAIN closed) =>
       /\ closed' = closed
       /\ objects' = objects
       /\ count'.neighbour = count.neighbour]_vars

\* C13 (as claimed), for the board whose distance from the initial board is
\* known, the solved one: the goal State that ends the search is the first
\* State of its board to be popped, and its cost is the least number of moves
\* from the initial board to the solved board.
C13_FirstPopOptimal ==
  (pc = "done" /\ result # None /\ Enumerated(puz)) =>
    objects[current].cost = Distance(puz)

\* C14: the heuristic_value of every State constructed, the initial State of
\* an unsolvable board included, is 0 exactly when its board is the solved
\* order.
C14_ZeroIffSolved ==
  \A i \in 1..Len(objects) :
    (objects[i].heuristic_value = 0) <=> (decode(objects[i]) = SolvedLike(puz))

\* C14 witness: the search has popped a State of heuristic value 0 that is not
\* the initial State, and States of other values before it.
C14_Witness ==
  /\ pc = "done"
  /\ result # None
  /\ current > 1
  /\ objects[current].heuristic_value = 0
  /\ objects[1].heuristic_value > 0
  /\ decode(objects[current]) = Solved(3, 3)

\* What the method of State named by the label m returns.
neighbour_by(m, self, ref) ==
  CASE m = "U" -> up(self, ref)
    [] m = "D" -> down(self, ref)
    [] m = "L" -> left(self, ref)
    [] m = "R" -> right(self, ref)

\* The method named by m does to the State self, to which ref refers, what
\* C15 says: None exactly in the row or column named; otherwise a State one
\* dearer, linked back to (ref, m), its blank in the adjacent cell, the tile of
\* that cell in the old blank cell and every other cell as it was.
MoveAsSpecified(m, self, ref) ==
  LET layout == decode(self)
      gap == Gap(layout)
      g == NewGap(gap, m)
      n == neighbour_by(m, self, ref)
      blocked == CASE m = "U" -> gap[1] = self.height - 1
                   [] m = "D" -> gap[1] = 0
                   [] m = "L" -> gap[2] = self.width - 1
                   [] m = "R" -> gap[2] = 0
  IN  IF blocked THEN n = None
      ELSE /\ n # None
           /\ n.cost = self.cost + 1
           /\ n.src = <<ref, m>>
           /\ n.zero_index = g[1] * self.width + g[2]
           /\ <<n.height, n.width, n.bit_length>> = <<self.height, self.width, self.bit_length>>
           /\ \A r \in 0..(self.height - 1), c \in 0..(self.width - 1) :
                tile_at(n, r * self.width + c) =
                  IF <<r, c>> = g THEN 0
                  ELSE IF <<r, c>> = gap THEN layout[g[1] + 1][g[2] + 1]
                  ELSE layout[r + 1][c + 1]
           /\ decode(n) = Animate(layout, m)

\* C15: up, down, left and right, called on the initial State, on the State
\* popped and on the State constructed last, return what C15 says; and no
\* step of solve() changes a State that exists.
C15_MovesAsSpecified ==
  /\ [](\A i \in {1, current, Len(objects)} \cap (1..Len(objects)) :
          \A m \in Moves : MoveAsSpecified(m, objects[i], i))
  /\ [][\A i \in 1..Len(objects) :
          i <= Len(objects') /\ objects'[i] = objects[i]]_vars

\* C15 witness: the State popped on a 3x3 board is not the initial one, its
\* blank is in the bottom row and not in the rightmost column: up returns
\* None and left returns a State.
C15_Witness ==
  /\ pc = "loop"
  /\ Height(puz) = 3
  /\ Width(puz) = 3
  /\ current > 1
  /\ up(objects[current], current) = None
  /\ left(objects[current], current) # None

\* The reference value C16 names, on a layout.  The goal cell <<row, column>>,
\* from 0, of the value v.
goal_cell(layout, v) ==
  IF v = 0 THEN <<Height(layout) - 1, Width(layout) - 1>>
  ELSE <<(v - 1) \div Width(layout), (v - 1) % Width(layout)>>

\* The pairs found from the tile in cell (i, j): the cells k to its right in
\* row i that hold a tile in its goal row whose goal column is at or before k.
reference_conflicts(layout, i, j) ==
  LET v == layout[i + 1][j + 1]
  IN  IF v = 0 \/ goal_cell(layout, v)[1] # i \/ goal_cell(layout, v)[2] <= j THEN {}
      ELSE {k \in (j + 1)..(Width(layout) - 1) :
              LET t == layout[i + 1][k + 1]
              IN  t # 0 /\ goal_cell(layout, t)[1] = i /\ goal_cell(layout, t)[2] <= k}

reference_heuristic(layout) ==
  Sum([n \in 0..(Height(layout) * Width(layout) - 1) |->
         LET i == n \div Width(layout)
             j == n % Width(layout)
             g == goal_cell(layout, layout[i + 1][j + 1])
         IN  abs(i - g[1]) + abs(j - g[2])
             + 2 * Cardinality(reference_conflicts(layout, i, j))],
      0, Height(layout) * Width(layout) - 1)

\* C16 (as claimed): the heuristic_value of every State constructed is the
\* reference value of its board: the Manhattan distances of all cells, the
\* blank included, plus 2 for every pair found by the scan to the right.
C16_HeuristicIsReference ==
  \A i \in 1..Len(objects) :
    objects[i].heuristic_value = reference_heuristic(decode(objects[i]))

\* C17: decoding the initial State gives back the board solve() was given,
\* cell by cell; and in every State constructed the decoded cells are the
\* values 0 .. height*width-1, each once, and zero_index is the one index that
\* decodes to 0.
C17_CodecRoundTrip ==
  /\ Len(objects) > 0 => decode(objects[1]) = puz
  /\ \A i \in 1..Len(objects) :
       LET self == objects[i]
           n == self.height * self.width
           cells == [index \in 0..(n - 1) |-> tile_at(self, index)]
       IN  /\ \A v \in 0..(n - 1) : Cardinality({index \in 0..(n - 1) : cells[index] = v}) = 1
           /\ \A index \in 0..(n - 1) : (cells[index] = 0) <=> (index = self.zero_index)

\* C17 witness: a search on a 3x3 board, whose packed board takes three
\* digits, has constructed more than eight States, and the last decodes to a
\* board other than the one given.
C17_Witness ==
  /\ pc = "loop"
  /\ Height(puz) = 3
  /\ Width(puz) = 3
  /\ Len(objects) > 8
  /\ Len(objects[1].board) = 3
  /\ decode(objects[1]) = puz
  /\ decode(objects[Len(objects)]) # puz

\* The least number of bits, one at least, that hold the value v.
RECURSIVE min_bits_from(_, _)
min_bits_from(v, k) == IF pow2(k) > v THEN k ELSE min_bits_from(v, k + 1)

min_bits(v) == min_bits_from(v, 1)

\* C18 (as claimed): the bit width solve() computes for a board, the 1x1
\* board included, is 1 at least and is the least number of bits that hold
\* height*width - 1.
C18_BitWidth ==
  Len(objects) > 0 =>
    /\ objects[1].bit_length >= 1
    /\ objects[1].bit_length = min_bits(Height(puz) * Width(puz) - 1)

\* The labels along the back-links of the State to which ref refers, from the
\* initial State on.
RECURSIVE own_path(_, _)
own_path(O, ref) ==
  IF O[ref].src = None THEN <<>>
  ELSE Append(own_path(O, O[ref].src[1]), O[ref].src[2])

\* C19 (as claimed): the list solve() returns is the chain of back-links of
\* the goal State popped, and is as long as that State's cost.
C19_PathOfGoalState ==
  (pc = "done" /\ result # None) =>
    /\ Len(result.list) = objects[current].cost
    /\ result.list = own_path(objects, current)

\* The walk of _reconstruct through map from the board b ends at the board
\* whose entry is None within n steps, and meets no missing key before.
RECURSIVE walk_ends(_, _, _, _)
walk_ends(O, map, b, n) ==
  /\ b \in DOMAIN map
  /\ \/ map[b] = None
     \/ n > 0 /\ walk_ends(O, map, O[map[b][1]].board, n - 1)

\* C20: in every state of the search, the entry of the initial board in closed
\* is None once it is there and no other entry is; every other entry
\* (parent, label) names a State whose board is a key of closed and from
\* whose board the animator's move label leads to the entry's board; and the
\* walk from every key ends at the initial board within as many steps as
\* closed has keys, so the links hold no cycle.
C20_ClosedLinksWellFounded ==
  /\ count.heappop > 0 => objects[1].board \in DOMAIN closed
  /\ \A b \in DOMAIN closed :
       /\ (closed[b] = None) <=> (b = objects[1].board)
       /\ closed[b] # None =>
            LET parent == objects[closed[b][1]]
                from == decode(parent)
            IN  /\ parent.board \in DOMAIN closed
                /\ Legal(from, closed[b][2])
                /\ Animate(from, closed[b][2]) = decode([parent EXCEPT !.board = b])
       /\ walk_ends(objects, closed, b, Cardinality(DOMAIN closed))

\* C20 witness: solve() has returned a list longer than the cost of the goal
\* State, so the walk went through an entry of closed that was written again.
C20_Witness ==
  /\ pc = "done"
  /\ result # None
  /\ Len(result.list) > objects[current].cost
  /\ walk_ends(objects, closed, objects[current].board, Cardinality(DOMAIN closed))

====
